---- MODULE Spec2Model ----
(***************************************************************************)
(* A model of showerpy's CorsikaPlotter (loading and decoding of CORSIKA   *)
(* output, derived metrics) and of CorsikaRunner's particle lookup.        *)
(*                                                                         *)
(* Bytes are integers 0..255.  A 32-bit float is the record of its three   *)
(* IEEE-754 fields [s, e, m] (sign, biased exponent, 23-bit mantissa); a   *)
(* table cell holds such a record (every float32 is exactly a float64).    *)
(***************************************************************************)
EXTENDS Integers, Sequences, FiniteSets, TLC

VARIABLES
    layout,             \* what was written to each track file (frame kinds)
    directory,          \* the files of path_data: suffix -> [present, bytes]
    container,          \* the cherenkov_iact file: [present, events]
    file_paths,         \* self.file_paths
    cherenkov_photons,  \* self.cherenkov_photons
    particle_tracks,    \* self.particle_tracks
    pc,                 \* position in __init__
    err,                \* the exception __init__ ended with, or "None"
    file_idx,           \* index of particle_file in list(file_paths.values())[:-1]
    cursor,             \* read position of f in the open track file
    tracks,             \* the list tracks of the open track file
    particle_tracks_df, \* the local particle_tracks_df
    mismatch,           \* history: some iteration read marker1 != marker2
    call,               \* the method last called on the objects, its argument
    plot                \* what that call drew, printed and returned

vars == <<layout, directory, container, file_paths, cherenkov_photons,
          particle_tracks, pc, err, file_idx, cursor, tracks,
          particle_tracks_df, mismatch, call, plot>>

(***************************************************************************)
(* Bounds of the model.                                                    *)
(***************************************************************************)
\* Frames (complete or cut off) written to the track files of one directory.
MaxFrames == 2
\* Blocks of equal tracks in a table handed to the plot methods.
MaxBlocks == 2
\* Entries of a color_dict.
MaxEntries == 2
\* The largest nbins handed to plot_ground_photon_density.
MaxSteps == 6
\* Photon bunches in the table handed to plot_ground_photon_density.
MaxPhotons == 2

(***************************************************************************)
(* struct: int32 ("i") and float32 ("f"), little-endian.                   *)
(***************************************************************************)
\* struct.pack("i", n)
PackI32(n) ==
    LET low == n % 16777216
        hi  == n \div 16777216
    IN  <<low % 256, (low \div 256) % 256, low \div 65536, hi % 256>>

\* struct.unpack("i", b)[0]
UnpackI32(b) ==
    b[1] + 256 * b[2] + 65536 * b[3]
      + 16777216 * (IF b[4] >= 128 THEN b[4] - 256 ELSE b[4])

\* struct.pack("f", v)
PackF32(v) ==
    <<v.m % 256, (v.m \div 256) % 256,
      (v.e % 2) * 128 + v.m \div 65536, v.s * 128 + v.e \div 2>>

\* struct.unpack("f", b)[0]
UnpackF32Mutant(b) ==
    [s |-> b[1] \div 128,
     e |-> (b[1] % 128) * 2 + b[2] \div 128,
     m |-> (b[2] % 128) * 65536 + b[3] * 256 + b[4]]
UnpackF32(b) ==
    [s |-> b[4] \div 128,
     e |-> (b[4] % 128) * 2 + b[3] \div 128,
     m |-> (b[3] % 128) * 65536 + b[2] * 256 + b[1]]

\* the byte size struct.unpack("10f", ...) requires
RecordBytes == 40

\* the number of floats of "10f"
RecordFields == 10

\* math.isnan / pandas isna of a cell
IsNaN(v) == v.e = 255 /\ v.m # 0

\* numpy.nan
NaN == [s |-> 0, e |-> 255, m |-> 4194304]

RECURSIVE PackFloats(_)
\* struct.pack("10f", *rec)
PackFloats(rec) ==
    IF rec = <<>> THEN <<>>
    ELSE PackF32(Head(rec)) \o PackFloats(Tail(rec))

\* struct.unpack("10f", data_bytes) of 40 bytes
Unpack10f(data_bytes) ==
    [i \in 1..RecordFields |->
        UnpackF32(SubSeq(data_bytes, 4 * i - 3, 4 * i))]

(***************************************************************************)
(* The records and frames written to the track files.                      *)
(***************************************************************************)
F0  == [s |-> 0, e |-> 0, m |-> 0]            \* 0.0
F1  == [s |-> 0, e |-> 127, m |-> 0]          \* 1.0
F2  == [s |-> 0, e |-> 128, m |-> 0]          \* 2.0
F14 == [s |-> 0, e |-> 130, m |-> 6291456]    \* 14.0
FNeg == [s |-> 1, e |-> 126, m |-> 4194304]   \* -0.75

\* a gamma track, all fields numbers
RecA == <<F1, F2, F0, F1, F2, F0, F1, FNeg, F0, F1>>
\* a proton track whose times are NaN
RecN == <<F14, F1, FNeg, F0, F2, NaN, F0, F1, F1, NaN>>

\* [int32 pre][payload][int32 suf]
Frame(pre, payload, suf) == PackI32(pre) \o payload \o PackI32(suf)

\* kinds of complete frames
CompleteKinds == {"A", "N", "mismatch", "zero", "short", "minus1", "minus2"}
\* kinds of frames cut off by the end of the file
CutKinds == {"cut_prefix", "cut_payload", "cut_suffix"}
\* the well-formed frames (prefix 40, 40 payload bytes, suffix 40)
GoodKinds == {"A", "N"}

RecordOf(k) == IF k = "A" THEN RecA ELSE RecN

FrameBytes(k) ==
    CASE k = "A" -> Frame(40, PackFloats(RecA), 40)
      [] k = "N" -> Frame(40, PackFloats(RecN), 40)
      [] k = "mismatch" -> Frame(40, PackFloats(RecA), 36)
      [] k = "zero" -> Frame(0, <<>>, 0)
      [] k = "short" -> Frame(36, SubSeq(PackFloats(RecA), 1, 36), 36)
      [] k = "minus1" -> Frame(-1, PackFloats(RecA), -1)
      [] k = "minus2" -> Frame(-2, PackFloats(RecA), -2)
      [] k = "cut_prefix" -> SubSeq(Frame(40, PackFloats(RecA), 40), 1, 2)
      [] k = "cut_payload" -> SubSeq(Frame(40, PackFloats(RecA), 40), 1, 24)
      [] k = "cut_suffix" -> SubSeq(Frame(40, PackFloats(RecA), 40), 1, 46)

RECURSIVE FileBytes(_)
\* the bytes of a file holding the frames of a layout, in order
FileBytes(l) ==
    IF l = <<>> THEN <<>>
    ELSE FrameBytes(Head(l)) \o FileBytes(Tail(l))

\* layouts of n frames: only the last may be cut off
LayoutsOfLen(n) ==
    {l \in [1..n -> CompleteKinds \cup CutKinds] :
        \A i \in 1..(n - 1) : l[i] \in CompleteKinds}

(***************************************************************************)
(* pandas.DataFrame: ordered column names and rows (column -> cell).       *)
(***************************************************************************)
PyNone == [kind |-> "None"]

\* no method has been called yet
NoCall == [method |-> "None", arg |-> <<>>]

DataFrame(columns, rows) ==
    [kind |-> "DataFrame", columns |-> columns, rows |-> rows]

Range(s) == {s[i] : i \in 1..Len(s)}

\* pd.DataFrame(tracks, columns=columns)
FrameOfTuples(tuples, columns) ==
    DataFrame(columns,
        [r \in 1..Len(tuples) |->
            [c \in Range(columns) |->
                tuples[r][CHOOSE i \in 1..Len(columns) : columns[i] = c]]])

RECURSIVE SelectCols(_, _)
SelectCols(columns, keep) ==
    IF columns = <<>> THEN <<>>
    ELSE IF Head(columns) \in keep
         THEN <<Head(columns)>> \o SelectCols(Tail(columns), keep)
         ELSE SelectCols(Tail(columns), keep)

\* df.dropna(axis=1, how="all")
DropnaAll(df) ==
    LET keep == {c \in Range(df.columns) :
                    ~(\A r \in 1..Len(df.rows) : IsNaN(df.rows[r][c]))}
        cols == SelectCols(df.columns, keep)
    IN  DataFrame(cols,
            [r \in 1..Len(df.rows) |-> [c \in keep |-> df.rows[r][c]]])

\* pd.concat([a, b], ignore_index=True): the union of the columns, a's first;
\* a cell of a column a frame lacks is NaN
Concat(a, b) ==
    LET extra == SelectCols(b.columns, Range(b.columns) \ Range(a.columns))
        cols  == a.columns \o extra
        fill(df) ==
            [r \in 1..Len(df.rows) |->
                [c \in Range(cols) |->
                    IF c \in Range(df.columns) THEN df.rows[r][c] ELSE NaN]]
    IN  DataFrame(cols, fill(a) \o fill(b))

(***************************************************************************)
(* CorsikaPlotter.__init__                                                 *)
(***************************************************************************)
\* the keys of self.file_paths, in insertion order
FileAttrs == <<"em_data", "muon_data", "hadron_data", "cherenkov_data">>

\* file_patterns: the suffix each attribute is found by
PatternOf(attr) ==
    CASE attr = "em_data" -> "track_em"
      [] attr = "muon_data" -> "track_mu"
      [] attr = "hadron_data" -> "track_hd"
      [] attr = "cherenkov_data" -> "cherenkov_iact"

TrackSuffixes == {"track_em", "track_mu", "track_hd"}

\* the columns of _parse_particle_data
columns == <<"particle_id", "energy_gev", "x_start", "y_start", "z_start",
             "t_start", "x_end", "y_end", "z_end", "t_end">>

\* the column names _parse_cherenkov_data assigns
cherenkov_columns == <<"x_impact_cm", "y_impact_cm", "cos_incident_x",
                       "cos_incident_y", "time_since_first_interaction_ns",
                       "emission_height_asl_cm", "photons", "wavelength_nm">>

\* whether path_data holds a file with this suffix
Present(suffix) ==
    IF suffix = "cherenkov_iact" THEN container.present
    ELSE directory[suffix].present

\* the containers: [] (no event), an event without telescope 0, and first
\* bunch arrays of 7-, 8- and 9-field rows (a later event and telescope are
\* ignored)
BunchRow(w) == [i \in 1..w |-> i]
Containers ==
    { <<>>, << <<>> >> }
    \cup { << <<[width |-> w, rows |-> <<BunchRow(w), BunchRow(w)>>],
                [width |-> 8, rows |-> <<BunchRow(8)>>]>>,
              <<[width |-> 8, rows |-> <<>>]>> >> : w \in {7, 8, 9} }

Init ==
    /\ \E p \in [TrackSuffixes -> BOOLEAN] :
       \E n1 \in 0..(IF p["track_em"] THEN MaxFrames ELSE 0) :
       \E n2 \in 0..(IF p["track_mu"] THEN MaxFrames - n1 ELSE 0) :
       \E n3 \in 0..(IF p["track_hd"] THEN MaxFrames - n1 - n2 ELSE 0) :
       \E l1 \in LayoutsOfLen(n1), l2 \in LayoutsOfLen(n2),
          l3 \in LayoutsOfLen(n3) :
          /\ layout = [track_em |-> l1, track_mu |-> l2, track_hd |-> l3]
          /\ directory =
                [s \in TrackSuffixes |->
                    [present |-> p[s], bytes |-> FileBytes(layout[s])]]
    /\ \E present \in BOOLEAN :
       \E events \in (IF present THEN Containers ELSE {<<>>}) :
          container = [present |-> present, events |-> events]
    /\ file_paths = [a \in Range(FileAttrs) |-> "None"]
    /\ cherenkov_photons = PyNone
    /\ particle_tracks = PyNone
    /\ pc = "_check_available_files"
    /\ err = "None"
    /\ file_idx = 0
    /\ cursor = 0
    /\ tracks = <<>>
    /\ particle_tracks_df = PyNone
    /\ mismatch = FALSE
    /\ call = NoCall
    /\ plot = PyNone

locals == <<file_idx, cursor, tracks, particle_tracks_df, mismatch>>
inputs == <<layout, directory, container, call, plot>>

\* an exception leaves __init__: no object is constructed
Raise(exc) ==
    /\ pc' = "raised"
    /\ err' = exc

\* what the scan of os.listdir leaves in self.file_paths
FoundPaths == [a \in Range(FileAttrs) |->
                  IF Present(PatternOf(a)) THEN PatternOf(a) ELSE "None"]

\* all(value is None for value in self.file_paths.values())
NoFilesFound(paths) == \A a \in Range(FileAttrs) : paths[a] = "None"

_check_available_files ==
    /\ pc = "_check_available_files"
    /\ file_paths' = FoundPaths
    /\ IF NoFilesFound(FoundPaths)
       THEN Raise("ValueError")
       ELSE pc' = "_parse_cherenkov_data" /\ UNCHANGED err
    /\ UNCHANGED <<inputs, cherenkov_photons, particle_tracks, locals>>

\* the columns that remain after drop(columns=["photons"])
DropPhotonsMutant(cols) == cols
DropPhotons(cols) == SelectCols(cols, Range(cols) \ {"photons"})

\* pd.DataFrame(event.photon_bunches[0]) with the 8 names, "photons" dropped
PhotonTable(bunches) ==
    LET keep == DropPhotons(cherenkov_columns)
    IN  DataFrame(keep,
            [r \in 1..Len(bunches.rows) |->
                [c \in Range(keep) |->
                    bunches.rows[r][CHOOSE i \in 1..Len(cherenkov_columns) :
                                        cherenkov_columns[i] = c]]])

_parse_cherenkov_data ==
    /\ pc = "_parse_cherenkov_data"
    /\ IF file_paths["cherenkov_data"] = "None"
       THEN Raise("ValueError") /\ UNCHANGED cherenkov_photons
       ELSE IF container.events = <<>>
       THEN Raise("StopIteration") /\ UNCHANGED cherenkov_photons
       ELSE IF container.events[1] = <<>>
       THEN Raise("KeyError") /\ UNCHANGED cherenkov_photons
       ELSE IF container.events[1][1].width # Len(cherenkov_columns)
       THEN Raise("ValueError") /\ UNCHANGED cherenkov_photons
       ELSE /\ cherenkov_photons' = PhotonTable(container.events[1][1])
            /\ pc' = "_parse_particle_data"
            /\ UNCHANGED err
    /\ UNCHANGED <<inputs, file_paths, particle_tracks, locals>>

(***************************************************************************)
(* CorsikaPlotter._parse_particle_data                                     *)
(***************************************************************************)
\* f.read(size) at position pos: up to size bytes, everything left for -1
ReadMutant(bytes, pos, size) ==
    IF size = -1 THEN SubSeq(bytes, pos + 1, Len(bytes))
    ELSE [i \in 1..size |->
            IF pos + i <= Len(bytes) THEN bytes[pos + i] ELSE 0]
Read(bytes, pos, size) ==
    IF size = -1 THEN SubSeq(bytes, pos + 1, Len(bytes))
    ELSE SubSeq(bytes, pos + 1,
                IF pos + size < Len(bytes) THEN pos + size ELSE Len(bytes))

\* marker1 != marker2
MarkersDifferMutant(marker1, marker2) == FALSE
MarkersDiffer(marker1, marker2) == marker1 # marker2

\* len(data_bytes) < marker1
PayloadCut(data_bytes, marker1) == Len(data_bytes) < marker1

\* struct.unpack("10f", data_bytes) raises struct.error
UnpackFails(data_bytes) == Len(data_bytes) # RecordBytes

\* an iteration that leaves f where the file begins
OutcomeRewinds(do, exc, pos, marker1, marker2, unpacked, rec) ==
    [do |-> do, exc |-> exc, pos |-> 0, marker1 |-> marker1,
     marker2 |-> marker2, unpacked |-> unpacked, rec |-> rec]

\* what an iteration hands back: do is "break", "raise" or "append"; pos is
\* where it leaves f; unpacked says that marker1 and marker2 were both read
Outcome(do, exc, pos, marker1, marker2, unpacked, rec) ==
    [do |-> do, exc |-> exc, pos |-> pos, marker1 |-> marker1,
     marker2 |-> marker2, unpacked |-> unpacked, rec |-> rec]

\* the payload cannot be unpacked: struct.error leaves the function
BadPayloadMutant(pos, marker1, marker2) ==
    Outcome("break", "None", pos, marker1, marker2, TRUE, <<>>)
BadPayload(pos, marker1, marker2) ==
    Outcome("raise", "struct.error", pos, marker1, marker2, TRUE, <<>>)

\* One pass through the body of "while True" with f at position pos.
Iteration(bytes, pos) ==
    LET marker1_bytes == Read(bytes, pos, 4)
        marker1       == UnpackI32(marker1_bytes)
        data_bytes    == Read(bytes, pos + 4, marker1)
        pos2          == pos + 4 + Len(data_bytes)
        marker2_bytes == Read(bytes, pos2, 4)
        marker2       == UnpackI32(marker2_bytes)
        pos3          == pos2 + Len(marker2_bytes)
    IN  IF Len(marker1_bytes) < 4
        THEN Outcome("break", "None", pos + Len(marker1_bytes),
                     0, 0, FALSE, <<>>)
        ELSE IF marker1 < -1
        THEN Outcome("raise", "ValueError", pos + 4, marker1, 0, FALSE, <<>>)
        ELSE IF PayloadCut(data_bytes, marker1)
        THEN Outcome("break", "None", pos2, marker1, 0, FALSE, <<>>)
        ELSE IF Len(marker2_bytes) < 4
        THEN Outcome("break", "None", pos3, marker1, 0, FALSE, <<>>)
        ELSE IF MarkersDiffer(marker1, marker2)
        THEN Outcome("raise", "ValueError", pos3, marker1, marker2, TRUE, <<>>)
        ELSE IF UnpackFails(data_bytes)
        THEN BadPayload(pos3, marker1, marker2)
        ELSE Outcome("append", "None", pos3, marker1, marker2, TRUE,
                     Unpack10f(data_bytes))

RECURSIVE Decode(_, _, _)
\* the whole "while True" loop over a file from position pos: the list
\* tracks it leaves and the exception it ends with ("None" for a break)
Decode(bytes, pos, acc) ==
    LET it == Iteration(bytes, pos)
    IN  CASE it.do = "break" -> [tracks |-> acc, exc |-> "None"]
          [] it.do = "raise" -> [tracks |-> acc, exc |-> it.exc]
          [] it.do = "append" -> Decode(bytes, it.pos, Append(acc, it.rec))

\* list(self.file_paths.values())[:-1]
ParticleFiles == [i \in 1..3 |-> file_paths[FileAttrs[i]]]

\* the bytes of the track file being read
OpenBytes == directory[ParticleFiles[file_idx]].bytes

\* particle_tracks_df = pd.DataFrame(columns=columns)
ParseParticleBegin ==
    /\ pc = "_parse_particle_data"
    /\ particle_tracks_df' = DataFrame(columns, <<>>)
    /\ file_idx' = 1
    /\ pc' = "for"
    /\ UNCHANGED <<inputs, file_paths, cherenkov_photons, particle_tracks,
                   err, cursor, tracks, mismatch>>

\* tracks = []
FreshTracksMutant(old) == old
FreshTracks(old) == <<>>

\* for particle_file in ...: skip None, else open the file
ForParticleFile ==
    /\ pc = "for"
    /\ file_idx <= Len(ParticleFiles)
    /\ IF ParticleFiles[file_idx] = "None"
       THEN /\ file_idx' = file_idx + 1
            /\ UNCHANGED <<pc, cursor, tracks>>
       ELSE /\ tracks' = FreshTracks(tracks)
            /\ cursor' = 0
            /\ pc' = "while"
            /\ UNCHANGED file_idx
    /\ UNCHANGED <<inputs, file_paths, cherenkov_photons, particle_tracks,
                   err, particle_tracks_df, mismatch>>

\* one iteration of "while True"
WhileTrue ==
    /\ pc = "while"
    /\ LET it == Iteration(OpenBytes, cursor)
       IN  /\ cursor' = it.pos
           /\ mismatch' = (mismatch \/ (it.unpacked /\ it.marker1 # it.marker2))
           /\ CASE it.do = "break" ->
                    pc' = "after_while" /\ UNCHANGED <<tracks, err>>
                [] it.do = "raise" ->
                    Raise(it.exc) /\ UNCHANGED tracks
                [] it.do = "append" ->
                    tracks' = Append(tracks, it.rec) /\ UNCHANGED <<pc, err>>
    /\ UNCHANGED <<inputs, file_paths, cherenkov_photons, particle_tracks,
                   file_idx, particle_tracks_df>>

\* pd.concat([particle_tracks_df, temp_df], ignore_index=True)
ConcatTracks(df, temp_df) == Concat(df, temp_df)

\* if not tracks: continue; else append the file's frame to the table
AfterWhile ==
    /\ pc = "after_while"
    /\ IF tracks = <<>>
       THEN UNCHANGED particle_tracks_df
       ELSE particle_tracks_df' =
                ConcatTracks(particle_tracks_df,
                             DropnaAll(FrameOfTuples(tracks, columns)))
    /\ file_idx' = file_idx + 1
    /\ pc' = "for"
    /\ UNCHANGED <<inputs, file_paths, cherenkov_photons, particle_tracks,
                   err, cursor, tracks, mismatch>>

\* return particle_tracks_df; __init__ stores it and returns
ParseParticleReturn ==
    /\ pc = "for"
    /\ file_idx > Len(ParticleFiles)
    /\ particle_tracks' = particle_tracks_df
    /\ pc' = "constructed"
    /\ UNCHANGED <<inputs, file_paths, cherenkov_photons, err, locals>>

\* _parse_particle_data over a directory whose only track file holds bytes
ParsedAlone(bytes) ==
    LET d == Decode(bytes, 0, <<>>)
    IN  IF d.tracks = <<>> THEN DataFrame(columns, <<>>)
        ELSE ConcatTracks(DataFrame(columns, <<>>),
                          DropnaAll(FrameOfTuples(d.tracks, columns)))

_parse_particle_data ==
    \/ ParseParticleBegin
    \/ ForParticleFile
    \/ WhileTrue
    \/ AfterWhile
    \/ ParseParticleReturn

Next ==
    \/ _check_available_files
    \/ _parse_cherenkov_data
    \/ _parse_particle_data

Spec == Init /\ [][Next]_vars

(***************************************************************************)
(* Properties of the loader.                                               *)
(***************************************************************************)
\* the layout of the track file that is open
OpenLayout == layout[ParticleFiles[file_idx]]

\* the loop over a track file is running, has ended or has raised
Reading ==
    \/ pc \in {"while", "after_while"}
    \/ pc = "raised" /\ file_idx >= 1

Front(l) == SubSeq(l, 1, Len(l) - 1)

AllGood(l) == \A i \in 1..Len(l) : l[i] \in GoodKinds

\* k >= 0 well-formed frames followed by a frame the end of file cuts off
IsCutLayout(l) ==
    /\ l # <<>>
    /\ l[Len(l)] \in CutKinds
    /\ AllGood(Front(l))

RECURSIVE GoodPrefix(_)
\* the well-formed frames a layout starts with
GoodPrefix(l) ==
    IF l = <<>> \/ Head(l) \notin GoodKinds THEN <<>>
    ELSE <<Head(l)>> \o GoodPrefix(Tail(l))

\* the first frame that is not well-formed, "end" when there is none
ReachedKind(l) ==
    IF Len(GoodPrefix(l)) = Len(l) THEN "end"
    ELSE l[Len(GoodPrefix(l)) + 1]

\* the records written by a layout of well-formed frames
RecordsOf(l) == [i \in 1..Len(l) |-> RecordOf(l[i])]

\* a written record as a table row
RowOf(rec) ==
    [c \in Range(columns) |->
        rec[CHOOSE i \in 1..Len(columns) : columns[i] = c]]

RowsOf(l) == [i \in 1..Len(l) |-> RowOf(RecordOf(l[i]))]

\* s is the only track file of the directory
OnlyTrack(s) ==
    \A t \in TrackSuffixes : directory[t].present <=> (t = s)

\* C1: a track file of k >= 0 well-formed records followed by a tail cut off
\* inside the prefix, the payload or the suffix decodes to exactly those k
\* records, in file order, without an error, and exactly those k records are
\* appended to the table.
C1_TruncatedTail ==
    /\ [](Reading /\ IsCutLayout(OpenLayout) =>
            /\ pc # "raised"
            /\ pc = "after_while" => tracks = RecordsOf(Front(OpenLayout)))
    /\ [][pc = "after_while" /\ IsCutLayout(OpenLayout) =>
            particle_tracks_df'.rows =
                particle_tracks_df.rows \o RowsOf(Front(OpenLayout))]_vars

\* C1 witness: a file of one record and a tail cut inside the payload was
\* read to its end and its one record is in the constructed object's table
C1_Witness ==
    /\ pc = "constructed"
    /\ layout["track_mu"] = <<"N", "cut_payload">>
    /\ directory["track_mu"].present
    /\ particle_tracks.rows = <<RowOf(RecN)>>

\* C2: once a suffix was read that differs from its prefix, decoding has
\* ended in a ValueError and no particle-track table is returned: the
\* construction is aborted, self.particle_tracks is never set.
C2_MismatchAborts ==
    mismatch =>
        /\ pc = "raised"
        /\ err = "ValueError"
        /\ particle_tracks = PyNone

\* C2 witness: the mismatch came after a valid record of the same file
C2_Witness ==
    /\ mismatch
    /\ pc = "raised"
    /\ tracks = <<RecA>>
    /\ OpenLayout = <<"A", "mismatch">>

\* every track file present is a sequence of well-formed frames and the
\* container, when present, starts with an array of 8-field rows
InputsWellFormed ==
    /\ \A s \in TrackSuffixes : directory[s].present => AllGood(layout[s])
    /\ container.present =>
          /\ container.events # <<>>
          /\ container.events[1] # <<>>
          /\ container.events[1][1].width = 8

\* C3: over well-formed files, construction succeeds exactly when at least
\* one of the four recognized files is present (and then yields a table).
C3_AnyNonEmptySubsetLoads ==
    (pc \in {"constructed", "raised"} /\ InputsWellFormed) =>
        /\ pc = "constructed" <=>
              \E a \in Range(FileAttrs) : Present(PatternOf(a))
        /\ pc = "constructed" => particle_tracks.kind = "DataFrame"

\* C5: in a returned table with records, a column is in the schema exactly
\* when some record of the whole table has a non-NaN value in it.
C5_AllNaNColumnsDropped ==
    (pc = "constructed" /\ particle_tracks.rows # <<>>) =>
        \A c \in Range(columns) :
            (c \in Range(particle_tracks.columns)) <=>
                (\E r \in 1..Len(particle_tracks.rows) :
                    c \in DOMAIN particle_tracks.rows[r]
                    /\ ~IsNaN(particle_tracks.rows[r][c]))

\* C6: every decoded record and every table row has exactly 10 fields and
\* comes from a frame with prefix = suffix = 40; a frame with matching
\* markers and a payload of another length (0 or 36 bytes) ends decoding in
\* struct.error, never quietly and never with a partial or padded record.
C6_TenFieldRecords ==
    /\ particle_tracks_df.kind = "DataFrame" =>
          /\ Len(particle_tracks_df.columns) = 10
          /\ \A r \in 1..Len(particle_tracks_df.rows) :
                /\ DOMAIN particle_tracks_df.rows[r]
                      = Range(particle_tracks_df.columns)
                /\ Cardinality(DOMAIN particle_tracks_df.rows[r]) = 10
    /\ Reading =>
          /\ \A i \in 1..Len(tracks) : Len(tracks[i]) = 10
          /\ \E n \in 0..Len(GoodPrefix(OpenLayout)) :
                tracks = RecordsOf(SubSeq(GoodPrefix(OpenLayout), 1, n))
    /\ (Reading /\ ReachedKind(OpenLayout) \in {"zero", "short"}) =>
          /\ pc # "after_while"
          /\ pc = "raised" =>
                /\ err = "struct.error"
                /\ particle_tracks = PyNone

\* C6 witness: a frame [0][][0] after a valid record raised struct.error
C6_Witness ==
    /\ pc = "raised"
    /\ err = "struct.error"
    /\ file_idx >= 1
    /\ OpenLayout = <<"A", "zero">>
    /\ tracks = <<RecA>>

\* C7: a file written as N >= 0 frames [40][10 x float32][40] decodes to
\* exactly the N records written, same fields, same order; alone in the
\* directory it gives the table of exactly these records.
C7_RoundTrip ==
    /\ (pc = "after_while" /\ AllGood(OpenLayout)) =>
          tracks = RecordsOf(OpenLayout)
    /\ pc = "constructed" =>
          \A s \in TrackSuffixes :
              (OnlyTrack(s) /\ AllGood(layout[s])) =>
                  particle_tracks = DataFrame(columns, RowsOf(layout[s]))

\* C7 witness: two different records written, both read back in order
C7_Witness ==
    /\ pc = "constructed"
    /\ OnlyTrack("track_hd")
    /\ layout["track_hd"] = <<"N", "A">>
    /\ particle_tracks.rows = <<RowOf(RecN), RowOf(RecA)>>

\* a file whose decoding ends without error and without a record
YieldsNothing(s) ==
    Decode(directory[s].bytes, 0, <<>>) = [tracks |-> <<>>, exc |-> "None"]

\* a file whose decoding yields at least one record
YieldsRecords(s) == Decode(directory[s].bytes, 0, <<>>).tracks # <<>>

\* C8: a table built over a file E that yields no record and a file F that
\* yields records (E before or after F) is the table built over F alone.
C8_EmptyFileContributesNothing ==
    pc = "constructed" =>
        /\ \A f \in TrackSuffixes :
              OnlyTrack(f) =>
                  particle_tracks = ParsedAlone(directory[f].bytes)
        /\ \A e, f \in TrackSuffixes :
              ( /\ e # f
                /\ \A t \in TrackSuffixes :
                      directory[t].present <=> t \in {e, f}
                /\ YieldsNothing(e)
                /\ YieldsRecords(f) ) =>
                  particle_tracks = ParsedAlone(directory[f].bytes)

\* C8 witness: F is read first and the empty file E after it
C8_Witness ==
    /\ pc = "constructed"
    /\ directory["track_em"].present /\ layout["track_em"] = <<"N">>
    /\ directory["track_hd"].present /\ layout["track_hd"] = <<"cut_suffix">>
    /\ ~directory["track_mu"].present
    /\ particle_tracks.rows = <<RowOf(RecN)>>

\* the 7 fields a photon table keeps, in order
RetainedFields == <<"x_impact_cm", "y_impact_cm", "cos_incident_x",
                    "cos_incident_y", "time_since_first_interaction_ns",
                    "emission_height_asl_cm", "wavelength_nm">>

\* C10: a photon table has exactly the 7 retained fields in their order,
\* never "photons" and never more than 7 fields; a container whose first
\* array has 8-field rows gives such a table, wavelength from raw field 8.
C10_SevenPhotonFields ==
    /\ cherenkov_photons.kind = "DataFrame" =>
          /\ cherenkov_photons.columns = RetainedFields
          /\ Len(cherenkov_photons.columns) <= 7
          /\ \A r \in 1..Len(cherenkov_photons.rows) :
                /\ DOMAIN cherenkov_photons.rows[r] = Range(RetainedFields)
                /\ cherenkov_photons.rows[r]["wavelength_nm"] = 8
                /\ cherenkov_photons.rows[r]["emission_height_asl_cm"] = 6
    /\ ( /\ pc \notin {"_check_available_files", "_parse_cherenkov_data"}
         /\ container.present
         /\ container.events # <<>>
         /\ container.events[1] # <<>>
         /\ container.events[1][1].width = 8 ) =>
          /\ cherenkov_photons.kind = "DataFrame"
          /\ Len(cherenkov_photons.rows) = Len(container.events[1][1].rows)

\* C10 witness: a photon table of two rows was produced
C10_Witness ==
    /\ cherenkov_photons.kind = "DataFrame"
    /\ Len(cherenkov_photons.rows) = 2

(***************************************************************************)
(* Strings are sequences of one-character strings.                         *)
(***************************************************************************)
UpperLetters == <<"A", "B", "C", "D", "E", "F", "G", "H", "I", "J", "K", "L",
                  "M", "N", "O", "P", "Q", "R", "S", "T", "U", "V", "W", "X",
                  "Y", "Z">>
LowerLetters == <<"a", "b", "c", "d", "e", "f", "g", "h", "i", "j", "k", "l",
                  "m", "n", "o", "p", "q", "r", "s", "t", "u", "v", "w", "x",
                  "y", "z">>
Whitespace == {" ", "\t", "\n", "\r"}

\* str.lower()
Lower(str) ==
    [i \in 1..Len(str) |->
        IF \E k \in 1..Len(UpperLetters) : UpperLetters[k] = str[i]
        THEN LowerLetters[CHOOSE k \in 1..Len(UpperLetters) :
                              UpperLetters[k] = str[i]]
        ELSE str[i]]

RECURSIVE LStrip(_)
LStrip(str) ==
    IF str # <<>> /\ Head(str) \in Whitespace THEN LStrip(Tail(str)) ELSE str

RECURSIVE RStrip(_)
RStrip(str) ==
    IF str # <<>> /\ str[Len(str)] \in Whitespace
    THEN RStrip(SubSeq(str, 1, Len(str) - 1))
    ELSE str

\* str.strip()
Strip(str) == RStrip(LStrip(str))

RECURSIVE RemoveSpaces(_)
\* str.replace(' ', '')
RemoveSpaces(str) ==
    IF str = <<>> THEN <<>>
    ELSE IF Head(str) = " " THEN RemoveSpaces(Tail(str))
    ELSE <<Head(str)>> \o RemoveSpaces(Tail(str))

RECURSIVE SplitPlus(_, _)
\* str.split('+'), cur being the piece collected so far
SplitPlus(str, cur) ==
    IF str = <<>> THEN <<cur>>
    ELSE IF Head(str) = "+" THEN <<cur>> \o SplitPlus(Tail(str), <<>>)
    ELSE SplitPlus(Tail(str), Append(cur, Head(str)))

(***************************************************************************)
(* self.particle_map (the same table in CorsikaPlotter and CorsikaRunner)  *)
(***************************************************************************)
particle_map ==
    {
        [name |-> <<"g", "a", "m", "m", "a">>, id |-> 1],
        [name |-> <<"e", "l", "e", "c", "t", "r", "o", "n">>, id |-> 2],
        [name |-> <<"p", "o", "s", "i", "t", "r", "o", "n">>, id |-> 3],
        [name |-> <<"m", "u", "o", "n">>, id |-> 5],
        [name |-> <<"a", "n", "t", "i", "m", "u", "o", "n">>, id |-> 6],
        [name |-> <<"p", "r", "o", "t", "o", "n">>, id |-> 14],
        [name |-> <<"h", "e", "l", "i", "u", "m">>, id |-> 402],
        [name |-> <<"l", "i", "t", "h", "i", "u", "m">>, id |-> 703],
        [name |-> <<"b", "e", "r", "y", "l", "l", "i", "u", "m">>, id |-> 904],
        [name |-> <<"b", "o", "r", "o", "n">>, id |-> 1105],
        [name |-> <<"c", "a", "r", "b", "o", "n">>, id |-> 1206],
        [name |-> <<"n", "i", "t", "r", "o", "g", "e", "n">>, id |-> 1407],
        [name |-> <<"o", "x", "y", "g", "e", "n">>, id |-> 1608],
        [name |-> <<"f", "l", "u", "o", "r", "i", "n", "e">>, id |-> 1909],
        [name |-> <<"n", "e", "o", "n">>, id |-> 2010],
        [name |-> <<"s", "o", "d", "i", "u", "m">>, id |-> 2311],
        [name |-> <<"m", "a", "g", "n", "e", "s", "i", "u", "m">>, id |-> 2412],
        [name |-> <<"a", "l", "u", "m", "i", "n", "i", "u", "m">>, id |-> 2713],
        [name |-> <<"s", "i", "l", "i", "c", "o", "n">>, id |-> 2814],
        [name |-> <<"p", "h", "o", "s", "p", "h", "o", "r", "u", "s">>, id |-> 3115],
        [name |-> <<"s", "u", "l", "f", "u", "r">>, id |-> 3216],
        [name |-> <<"c", "h", "l", "o", "r", "i", "n", "e">>, id |-> 3517],
        [name |-> <<"a", "r", "g", "o", "n">>, id |-> 3618],
        [name |-> <<"p", "o", "t", "a", "s", "s", "i", "u", "m">>, id |-> 3919],
        [name |-> <<"c", "a", "l", "c", "i", "u", "m">>, id |-> 4020],
        [name |-> <<"s", "c", "a", "n", "d", "i", "u", "m">>, id |-> 4321],
        [name |-> <<"t", "i", "t", "a", "n", "i", "u", "m">>, id |-> 4422],
        [name |-> <<"v", "a", "n", "a", "d", "i", "u", "m">>, id |-> 4723],
        [name |-> <<"c", "h", "r", "o", "m", "i", "u", "m">>, id |-> 4824],
        [name |-> <<"m", "a", "n", "g", "a", "n", "e", "s", "e">>, id |-> 5125],
        [name |-> <<"i", "r", "o", "n">>, id |-> 5626]
    }

\* name in self.particle_map
InParticleMap(name) == \E en \in particle_map : en.name = name

\* self.particle_map[name]
IdOf(name) == (CHOOSE en \in particle_map : en.name = name).id

(***************************************************************************)
(* CorsikaRunner._parse_particletype                                       *)
(***************************************************************************)
\* particle_name.lower().strip()
NormalizeName(particle_name) == Strip(Lower(particle_name))

\* the names given to the methods
GivenNames ==
    { <<"p", "r", "o", "t", "o", "n">>,
      <<"P", "r", "o", "t", "o", "n">>,
      <<" ", "p", "r", "o", "t", "o", "n", " ">>,
      <<"g", "a", "m", "m", "a">>,
      <<"p", "i", "o", "n">>,
      <<"g", "a", "m", "m", "a", " ", "+", " ", "p", "r", "o", "t", "o", "n">> }

_parse_particletype ==
    /\ pc = "constructed"
    /\ \E particle_name \in GivenNames :
          /\ call' = [method |-> "_parse_particletype", arg |-> particle_name]
          /\ IF InParticleMap(NormalizeName(particle_name))
             THEN /\ plot' = [kind |-> "id",
                              id |-> IdOf(NormalizeName(particle_name))]
                  /\ err' = "None"
             ELSE /\ plot' = PyNone
                  /\ err' = "ValueError"
    /\ pc' = "called"
    /\ UNCHANGED <<layout, directory, container, file_paths,
                   cherenkov_photons, particle_tracks, locals>>

(***************************************************************************)
(* Numbers in table cells.                                                 *)
(***************************************************************************)
Pow2(k) == 2 ^ k

RECURSIVE Log2(_)
\* floor(log2(n)) for n >= 1
Log2(n) == IF n < 2 THEN 0 ELSE 1 + Log2(n \div 2)

\* the float32 of an integer 0 <= n < 2^24
FloatOfInt(n) ==
    IF n = 0 THEN F0
    ELSE [s |-> 0, e |-> 127 + Log2(n),
          m |-> n * Pow2(23 - Log2(n)) - 8388608]

\* floor of a float32 v with 0 <= v < 2^24, -1 for a negative or NaN cell
FloorOf(v) ==
    IF IsNaN(v) \/ (v.s = 1 /\ (v.e # 0 \/ v.m # 0)) THEN -1
    ELSE IF v.e < 127 THEN 0
    ELSE IF v.e <= 150 THEN (8388608 + v.m) \div Pow2(150 - v.e)
    ELSE 16777216

(***************************************************************************)
(* CorsikaPlotter._get_showerstart_height                                  *)
(***************************************************************************)
\* the unit-width bins of np.arange(0, 40, 1): 39 bins, edges 0..39
ShowerEdges == 40

\* "more than 10 particles"
ShowerThreshold == 10

\* the bin of z_start * 1e-5 among [0,1), ..., [37,38), [38,39]; -1 outside.
\* (For an integer z_start below 2^24 the double product floors to
\* z_start \div 100000.)
ShowerBinOf(z_start) ==
    LET z == FloorOf(z_start)
    IN  IF z < 0 \/ z > (ShowerEdges - 1) * 100000 THEN -1
        ELSE IF z = (ShowerEdges - 1) * 100000 THEN ShowerEdges - 2
        ELSE z \div 100000

RECURSIVE ShowerTally(_, _)
\* the counts per bin of the first r rows
ShowerTally(df, r) ==
    IF r = 0 THEN [k \in 0..(ShowerEdges - 2) |-> 0]
    ELSE LET bin == ShowerBinOf(df.rows[r]["z_start"])
         IN  IF bin < 0 THEN ShowerTally(df, r - 1)
             ELSE [ShowerTally(df, r - 1) EXCEPT ![bin] = @ + 1]

\* nparticles of np.histogram, bin k in 0..38
ShowerHist(df) == ShowerTally(df, Len(df.rows))

\* the same scan with "at least 10" in place of "more than 10"
ShowerStartMutant(df) ==
    LET nparticles == ShowerHist(df)
        flipped == [j \in 0..(ShowerEdges - 2) |->
                       nparticles[ShowerEdges - 2 - j]]
        hasl    == [i \in 0..(ShowerEdges - 1) |-> ShowerEdges - 1 - i]
        over    == {j \in DOMAIN flipped : flipped[j] >= ShowerThreshold}
        argmax  == IF over = {} THEN 0
                   ELSE CHOOSE j \in over : \A i \in over : j <= i
        index   == argmax - 1
    IN  hasl[IF index < 0 THEN ShowerEdges + index ELSE index]

\* hasl[np.argmax(nparticles > 10) - 1] on the flipped arrays
_get_showerstart_height(df) ==
    LET nparticles == ShowerHist(df)
        flipped == [j \in 0..(ShowerEdges - 2) |->
                       nparticles[ShowerEdges - 2 - j]]
        hasl    == [i \in 0..(ShowerEdges - 1) |-> ShowerEdges - 1 - i]
        over    == {j \in DOMAIN flipped : flipped[j] > ShowerThreshold}
        argmax  == IF over = {} THEN 0
                   ELSE CHOOSE j \in over : \A i \in over : j <= i
        index   == argmax - 1
    IN  hasl[IF index < 0 THEN ShowerEdges + index ELSE index]

(***************************************************************************)
(* The tables and color_dicts handed to the plot methods.                  *)
(***************************************************************************)
TrackOf(id, z) ==
    RowOf(<<FloatOfInt(id), F1, F0, F0, FloatOfInt(z), F0, F1, F1, F0, F1>>)

\* blocks of n equal tracks: gammas (1) and protons (14) starting at
\* 0.55 km and 1.55 km (z_start in cm, off the 0.1-wide bin edges, where
\* the rounding of np.arange(0, shower_start, 0.1) * 1e5 decides the bin)
Blocks ==
    { [id |-> 1, z |-> 55000, n |-> 1],
      [id |-> 1, z |-> 155000, n |-> ShowerThreshold + 1],
      [id |-> 14, z |-> 155000, n |-> ShowerThreshold],
      [id |-> 14, z |-> 55000, n |-> ShowerThreshold + 1] }

RECURSIVE RowsOfBlocks(_)
RowsOfBlocks(bs) ==
    IF bs = <<>> THEN <<>>
    ELSE [i \in 1..Head(bs).n |-> TrackOf(Head(bs).id, Head(bs).z)]
            \o RowsOfBlocks(Tail(bs))

PlotTables ==
    {DataFrame(columns, RowsOfBlocks(bs)) :
        bs \in UNION {[1..n -> Blocks] : n \in 0..MaxBlocks}}

Colors == <<"red", "blue", "green", "orange">>

\* dicts of up to MaxEntries different names, the i-th with the i-th color
ColorDicts ==
    {[i \in 1..Len(ns) |-> [name |-> ns[i], color |-> Colors[i]]] :
        ns \in {q \in UNION {[1..n -> GivenNames] : n \in 0..MaxEntries} :
                   \A i, j \in 1..Len(q) : i # j => q[i] # q[j]}}

InitPlot ==
    /\ layout = [s \in TrackSuffixes |-> <<>>]
    /\ directory = [s \in TrackSuffixes |-> [present |-> FALSE, bytes |-> <<>>]]
    /\ container = [present |-> TRUE,
                    events |-> << <<[width |-> 8, rows |-> <<BunchRow(8)>>]>> >>]
    /\ file_paths = FoundPaths
    /\ cherenkov_photons = PhotonTable(container.events[1][1])
    /\ particle_tracks \in PlotTables
    /\ pc = "constructed"
    /\ err = "None"
    /\ file_idx = 4
    /\ cursor = 0
    /\ tracks = <<>>
    /\ particle_tracks_df = particle_tracks
    /\ mismatch = FALSE
    /\ call = NoCall
    /\ plot = PyNone

(***************************************************************************)
(* CorsikaPlotter.plot_particle_height_distribution                        *)
(***************************************************************************)
\* the rows with particle_tracks["particle_id"] == particle_id
SubsetOf(df, particle_id) ==
    SelectSeq([r \in 1..Len(df.rows) |-> r],
              LAMBDA r : df.rows[r]["particle_id"] = FloatOfInt(particle_id))

\* the number of bins of np.arange(0, shower_start, 0.1) * 1e5
HeightBins(start) == IF start = 0 THEN 0 ELSE 10 * start - 1

\* the bin of z_start among the 0.1-wide bins below shower_start, -1 outside
HeightBinOf(z_start, start) ==
    LET z == FloorOf(z_start)
    IN  IF z < 0 \/ z >= HeightBins(start) * 10000 THEN -1
        ELSE z \div 10000

RECURSIVE HeightTally(_, _, _, _)
\* the counts per bin of those of the first r rows that are in the subset
\* (a set of row numbers)
HeightTally(df, subset, start, r) ==
    IF r = 0 THEN [b \in 0..(HeightBins(start) - 1) |-> 0]
    ELSE LET bin == HeightBinOf(df.rows[r]["z_start"], start)
         IN  IF bin < 0 \/ r \notin subset
             THEN HeightTally(df, subset, start, r - 1)
             ELSE [HeightTally(df, subset, start, r - 1)
                      EXCEPT ![bin] = @ + 1]

\* np.histogram(subset.z_start, bins=np.arange(0, shower_start, 0.1) * 1e5)
\* for the subset of the rows with this particle id
HeightHist(df, particle_id, start) ==
    LET id     == FloatOfInt(particle_id)
        subset == {r \in 1..Len(df.rows) : df.rows[r]["particle_id"] = id}
    IN  HeightTally(df, subset, start, Len(df.rows))

\* np.histogram(self.particle_tracks.z_start, ...) over all rows
HeightHistAll(df, start) ==
    HeightTally(df, 1..Len(df.rows), start, Len(df.rows))

AllParticles == <<"A", "l", "l", " ", "p", "a", "r", "t", "i", "c", "l", "e", "s">>

RECURSIVE GroupCounts(_, _, _)
\* the inner loop over subnames: all_particles, or "raise" at the first
\* name that is not in the map
GroupCounts(df, subnames, start) ==
    IF subnames = <<>>
    THEN [do |-> "ok", warn |-> <<>>,
          counts |-> [b \in 0..(HeightBins(start) - 1) |-> 0]]
    ELSE IF ~InParticleMap(Head(subnames))
    THEN [do |-> "raise", warn |-> Head(subnames), counts |-> <<>>]
    ELSE LET rest == GroupCounts(df, Tail(subnames), start)
             here == HeightHist(df, IdOf(Head(subnames)), start)
         IN  IF rest.do = "raise" THEN rest
             ELSE [do |-> "ok", warn |-> <<>>,
                   counts |-> [b \in 0..(HeightBins(start) - 1) |->
                                  here[b] + rest.counts[b]]]

RECURSIVE GroupName(_)
\* group_name: each name followed by 's + '
GroupName(subnames) ==
    IF subnames = <<>> THEN <<>>
    ELSE Head(subnames) \o <<"s", " ", "+", " ">> \o GroupName(Tail(subnames))

\* an unknown name: the warning is printed, then "raise()" raises TypeError
UnknownAborts(ax, name) ==
    [err |-> "TypeError", lines |-> ax.lines,
     warnings |-> Append(ax.warnings, name)]

RECURSIVE HeightLoop(_, _, _, _)
\* the loop over color_dict.items(): the lines plotted, the warnings
\* printed and the exception that ended it
HeightLoop(df, items, start, ax) ==
    IF items = <<>> \/ ax.err # "None" THEN ax
    ELSE LET subnames == SplitPlus(RemoveSpaces(Head(items).name), <<>>)
             g        == GroupCounts(df, subnames, start)
             label    == GroupName(subnames)
         IN  HeightLoop(df, Tail(items), start,
                IF g.do = "raise" THEN UnknownAborts(ax, g.warn)
                ELSE [err |-> "None", warnings |-> ax.warnings,
                      lines |-> Append(ax.lines,
                          [color |-> Head(items).color,
                           label |-> SubSeq(label, 1, Len(label) - 3),
                           counts |-> g.counts])])

plot_particle_height_distribution ==
    /\ pc = "constructed"
    /\ \E color_dict \in ColorDicts :
       \E start \in {_get_showerstart_height(particle_tracks)} :
          LET all   == [color |-> "black", label |-> AllParticles,
                        counts |-> HeightHistAll(particle_tracks, start)]
              ax    == HeightLoop(particle_tracks, color_dict, start,
                          [err |-> "None", lines |-> <<all>>,
                           warnings |-> <<>>])
          IN  /\ call' = [method |-> "plot_particle_height_distribution",
                          arg |-> color_dict]
              /\ plot' = [kind |-> "ax", shower_start |-> start,
                          lines |-> ax.lines, warnings |-> ax.warnings]
              /\ err' = ax.err
    /\ pc' = "called"
    /\ UNCHANGED <<layout, directory, container, file_paths,
                   cherenkov_photons, particle_tracks, locals>>

(***************************************************************************)
(* CorsikaPlotter.plot_side_profile                                        *)
(***************************************************************************)
RECURSIVE SideLoop(_, _, _)
\* the loop over color_dict.items(): the collections added, the warnings
\* printed and how often colored_particle_ids was appended to
SideLoop(df, items, ax) ==
    IF items = <<>> THEN ax
    ELSE IF ~InParticleMap(Head(items).name)
    THEN SideLoop(df, Tail(items),
            [ax EXCEPT !.warnings = Append(@, Head(items).name)])
    ELSE LET subset == SubsetOf(df, IdOf(Head(items).name))
             seen   == [ax EXCEPT !.colored = @ + 1]
         IN  SideLoop(df, Tail(items),
                IF subset = <<>> THEN seen
                ELSE [seen EXCEPT !.collections = Append(@,
                         [color |-> Head(items).color,
                          label |-> Head(items).name,
                          segments |-> subset])])

\* ~particle_tracks["particle_id"].isin(colored_particle_ids), where
\* colored_particle_ids holds only references to itself (line 286 appends
\* the list to itself): no particle id is among them.  With a non-empty
\* list pandas either hashes the list elements (TypeError: unhashable
\* type) or finds no match; both are taken as possible.
IsinOutcomes(colored) ==
    IF colored = 0 THEN {"None"} ELSE {"None", "TypeError"}

plot_side_profile ==
    /\ pc = "constructed"
    /\ \E color_dict \in ColorDicts :
       \E start \in {_get_showerstart_height(particle_tracks)} :
          LET ax    == SideLoop(particle_tracks, color_dict,
                          [collections |-> <<>>, warnings |-> <<>>,
                           colored |-> 0])
              black == [color |-> "black", label |-> <<>>,
                        segments |-> [r \in 1..Len(particle_tracks.rows) |-> r]]
          IN  \E outcome \in IsinOutcomes(ax.colored) :
                /\ call' = [method |-> "plot_side_profile", arg |-> color_dict]
                /\ err' = outcome
                /\ plot' = [kind |-> "ax", shower_start |-> start,
                            warnings |-> ax.warnings,
                            collections |->
                                IF outcome = "None"
                                THEN Append(ax.collections, black)
                                ELSE ax.collections]
    /\ pc' = "called"
    /\ UNCHANGED <<layout, directory, container, file_paths,
                   cherenkov_photons, particle_tracks, locals>>

NextPlot ==
    \/ _parse_particletype
    \/ plot_particle_height_distribution
    \/ plot_side_profile

SpecPlot == InitPlot /\ [][NextPlot]_vars

(***************************************************************************)
(* Properties of the lookups and the plot methods.                         *)
(***************************************************************************)
\* the pieces of a color_dict key between '+' signs
PiecesOf(name) == SplitPlus(name, <<>>)

\* every piece of the key has a catalog entry (spaces aside)
ValidGroup(name) ==
    \A i \in 1..Len(PiecesOf(RemoveSpaces(name))) :
        InParticleMap(PiecesOf(RemoveSpaces(name))[i])

\* the entries of a color_dict whose groups are valid, in order
ValidGroups(color_dict) ==
    LET Valid(entry) == ValidGroup(entry.name)
    IN  SelectSeq(color_dict, Valid)

\* C4: plot_particle_height_distribution never ends in an exception because
\* of an unknown name: every group with an unknown name is reported and
\* skipped, and one line of counts is drawn for "All particles" and for
\* every valid group, in the order of color_dict.
C4_UnknownGroupSkipped ==
    call.method = "plot_particle_height_distribution" =>
        /\ err = "None"
        /\ Len(plot.lines) = 1 + Len(ValidGroups(call.arg))
        /\ \A i \in 1..Len(ValidGroups(call.arg)) :
              plot.lines[i + 1].color = ValidGroups(call.arg)[i].color
        /\ \A i \in 1..Len(call.arg) :
              ValidGroup(call.arg[i].name)
              \/ \E w \in 1..Len(plot.warnings) :
                    \E k \in 1..Len(PiecesOf(RemoveSpaces(call.arg[i].name))) :
                        plot.warnings[w]
                            = PiecesOf(RemoveSpaces(call.arg[i].name))[k]

\* C9: every lookup by name folds case and trims whitespace: the primary
\* particle resolves to the id of its normalized name and fails exactly
\* when that name is not in the table, and no plot method reports a name
\* as unknown whose normalized form is in the table.
C9_LookupNormalizes ==
    /\ call.method = "_parse_particletype" =>
          IF InParticleMap(NormalizeName(call.arg))
          THEN err = "None" /\ plot.id = IdOf(NormalizeName(call.arg))
          ELSE err = "ValueError"
    /\ call.method \in {"plot_side_profile",
                        "plot_particle_height_distribution"} =>
          \A w \in 1..Len(plot.warnings) :
              ~InParticleMap(NormalizeName(plot.warnings[w]))

(***************************************************************************)
(* Calls of _get_showerstart_height on its own, on tables whose tracks     *)
(* start anywhere in the range of the altitude bins.                       *)
(***************************************************************************)
\* z_start in cm: 0 km, 20 km, 37.5 km, 38.5 km (the topmost bin), 39 km
\* (the closing edge of the topmost bin) and 39.5 km (outside the bins)
ShowerAltitudes == {0, 2000000, 3750000, 3850000, 3900000, 3950000}

\* blocks of 1, 10 or 11 gamma tracks starting at one altitude
ShowerBlocks ==
    [id : {1}, z : ShowerAltitudes,
     n : {1, ShowerThreshold, ShowerThreshold + 1}]

\* 11 tracks at 20 km and single tracks at 0, 5, 15, 25 and 35 km
ExampleTable ==
    DataFrame(columns,
        RowsOfBlocks(<< [id |-> 1, z |-> 2000000, n |-> 11],
                        [id |-> 1, z |-> 0, n |-> 1],
                        [id |-> 1, z |-> 500000, n |-> 1],
                        [id |-> 1, z |-> 1500000, n |-> 1],
                        [id |-> 1, z |-> 2500000, n |-> 1],
                        [id |-> 1, z |-> 3500000, n |-> 1] >>))

ShowerTables ==
    {ExampleTable} \cup
    {DataFrame(columns, RowsOfBlocks(bs)) :
        bs \in UNION {[1..n -> ShowerBlocks] : n \in 0..MaxBlocks}}

InitShower ==
    /\ layout = [s \in TrackSuffixes |-> <<>>]
    /\ directory = [s \in TrackSuffixes |-> [present |-> FALSE, bytes |-> <<>>]]
    /\ container = [present |-> TRUE,
                    events |-> << <<[width |-> 8, rows |-> <<BunchRow(8)>>]>> >>]
    /\ file_paths = FoundPaths
    /\ cherenkov_photons = PhotonTable(container.events[1][1])
    /\ particle_tracks \in ShowerTables
    /\ pc = "constructed"
    /\ err = "None"
    /\ file_idx = 4
    /\ cursor = 0
    /\ tracks = <<>>
    /\ particle_tracks_df = particle_tracks
    /\ mismatch = FALSE
    /\ call = NoCall
    /\ plot = [kind |-> "heights", values |-> <<>>]

\* self._get_showerstart_height(), called once and once again on the same
\* object; plot.values holds the values returned so far
ShowerStartCall ==
    /\ pc \in {"constructed", "called"}
    /\ Len(plot.values) < 2
    /\ call' = [method |-> "_get_showerstart_height", arg |-> <<>>]
    /\ plot' = [plot EXCEPT
                   !.values = Append(@, _get_showerstart_height(particle_tracks))]
    /\ pc' = "called"
    /\ UNCHANGED <<layout, directory, container, file_paths,
                   cherenkov_photons, particle_tracks, err, locals>>

NextShower == ShowerStartCall

SpecShower == InitShower /\ [][NextShower]_vars

(***************************************************************************)
(* Properties of the shower-start altitude.                                *)
(***************************************************************************)
\* z_start of every track, in whole cm
StartsCm(df) == [r \in 1..Len(df.rows) |-> FloorOf(df.rows[r]["z_start"])]

\* the number of tracks that start in the altitude bin [k, k+1) km; the
\* topmost bin also holds its upper edge
TracksInBin(cm, k) ==
    Cardinality({r \in DOMAIN cm :
        \/ k * 100000 <= cm[r] /\ cm[r] < (k + 1) * 100000
        \/ k = ShowerEdges - 2 /\ cm[r] = (k + 1) * 100000})

\* the bins with more than 10 tracks
BinsOver(df) ==
    LET cm == StartsCm(df)
    IN  {k \in 0..(ShowerEdges - 2) :
            /\ \E r \in DOMAIN cm : cm[r] \div 100000 \in {k, k + 1}
            /\ TracksInBin(cm, k) > ShowerThreshold}

\* the highest of a set of bins
Highest(bins) == CHOOSE k \in bins : \A i \in bins : i <= k

\* C11: when some bin has more than 10 tracks and the highest such bin
\* [k, k+1) is not the topmost bin, _get_showerstart_height returns a value
\* in [k+1, k+2]; a second call on the same table returns the same value;
\* for the table of 11 tracks at 20 and single tracks at 0, 5, 15, 25, 35
\* the value is at least 15 and below 25.
C11_ShowerStartAboveHighestBin ==
    call.method = "_get_showerstart_height" =>
        LET over == BinsOver(particle_tracks)
        IN  /\ \A i, j \in 1..Len(plot.values) :
                  plot.values[i] = plot.values[j]
            /\ (over # {} /\ Highest(over) # ShowerEdges - 2) =>
                  \A i \in 1..Len(plot.values) :
                      /\ Highest(over) + 1 <= plot.values[i]
                      /\ plot.values[i] <= Highest(over) + 2
            /\ particle_tracks = ExampleTable =>
                  \A i \in 1..Len(plot.values) :
                      15 <= plot.values[i] /\ plot.values[i] < 25

\* C11 witness: two calls were made on a table whose highest bin with more
\* than 10 tracks is [37, 38), below a topmost bin that holds 10 tracks
C11_Witness ==
    /\ call.method = "_get_showerstart_height"
    /\ Len(plot.values) = 2
    /\ BinsOver(particle_tracks) = {ShowerEdges - 3}
    /\ TracksInBin(StartsCm(particle_tracks), ShowerEdges - 2)
          = ShowerThreshold

\* C12: the value returned by _get_showerstart_height is never below the
\* upper edge of the highest bin with more than 10 tracks; when that bin is
\* the topmost bin the value is the top of the range, not the lowest edge 0.
C12_ShowerStartNeverBelowBin ==
    call.method = "_get_showerstart_height" =>
        LET over == BinsOver(particle_tracks)
        IN  over # {} =>
                \A i \in 1..Len(plot.values) :
                    plot.values[i] >= Highest(over) + 1

(***************************************************************************)
(* Properties of plot_side_profile.                                        *)
(***************************************************************************)
\* the ids, as table cells, of the keys of color_dict found in particle_map
ColoredIds(color_dict) ==
    {FloatOfInt(IdOf(color_dict[i].name)) :
        i \in {j \in 1..Len(color_dict) : InParticleMap(color_dict[j].name)}}

\* the rows of the table whose particle id is none of these ids
OtherTracks(df, ids) ==
    SelectSeq([r \in 1..Len(df.rows) |-> r],
              LAMBDA r : df.rows[r]["particle_id"] \notin ids)

\* C13: plot_side_profile draws in black exactly the tracks whose particle
\* id is not the id of a known name of color_dict; a track of a species
\* with its own color is not among the black tracks.
C13_BlackTracksAreTheRest ==
    call.method = "plot_side_profile" =>
        /\ err = "None"
        /\ plot.collections # <<>>
        /\ plot.collections[Len(plot.collections)].color = "black"
        /\ plot.collections[Len(plot.collections)].segments
              = OtherTracks(particle_tracks, ColoredIds(call.arg))

(***************************************************************************)
(* CorsikaPlotter.plot_ground_photon_density                               *)
(*                                                                         *)
(* Lengths are whole multiples of 0.1 m.                                   *)
(***************************************************************************)
\* np.logspace(np.log10(1), np.log10(800), nbins), the values
\* 10 ** (i * log10(800) / (nbins - 1)) rounded down to 0.1 m
Logspace(nbins) ==
    CASE nbins = 0 -> <<>>
      [] nbins = 1 -> <<10>>
      [] nbins = 2 -> <<10, 8000>>
      [] nbins = 3 -> <<10, 282, 8000>>
      [] nbins = 4 -> <<10, 92, 861, 8000>>
      [] nbins = 5 -> <<10, 53, 282, 1504, 8000>>
      [] nbins = 6 -> <<10, 38, 144, 551, 2101, 8000>>
      [] nbins = 7 -> <<10, 30, 92, 282, 861, 2625, 8000>>
      [] nbins = 8 -> <<10, 25, 67, 175, 455, 1184, 3078, 8000>>

\* whether .reshape((nbins//2, 2)) fits the array
ReshapeFits(array, nbins) == Len(array) = (nbins \div 2) * 2

\* array.reshape((nbins//2, 2)): row j holds elements 2j-1 and 2j
Reshape(array, nbins) ==
    [j \in 1..(nbins \div 2) |-> <<array[2 * j - 1], array[2 * j]>>]

RECURSIVE SqrtIn(_, _, _)
\* the largest r in lo..hi with r * r <= n, by bisection
SqrtIn(n, lo, hi) ==
    IF lo = hi THEN lo
    ELSE LET mid == (lo + hi + 1) \div 2
         IN  IF mid * mid <= n THEN SqrtIn(n, mid, hi)
             ELSE SqrtIn(n, lo, mid - 1)

\* np.sqrt of a perfect square below 2^30
Sqrt(n) == SqrtIn(n, 0, 2 ^ 15)

\* the radius of _cartesian_to_polar(x, y) (theta is not used)
_cartesian_to_polar(x, y) == Sqrt(x * x + y * y)

\* np.pi * (r_outer**2 - r_inner**2), in units of pi * 0.01 m^2
_ring_area(r_inner, r_outer) == r_outer * r_outer - r_inner * r_inner

\* impact_r of every photon bunch: x_impact_cm * 1e-2, y_impact_cm * 1e-2
ImpactR(photons) ==
    [r \in 1..Len(photons.rows) |->
        _cartesian_to_polar(photons.rows[r]["x_impact_cm"] \div 10,
                            photons.rows[r]["y_impact_cm"] \div 10)]

\* the same test with "or" in place of "and"
InRingMutant(impact, inner_radius, outer_radius) ==
    (impact < outer_radius) \/ (impact >= inner_radius)

\* (impact_r < outer_radius) & (impact_r >= inner_radius)
InRing(impact, inner_radius, outer_radius) ==
    (impact < outer_radius) /\ (impact >= inner_radius)

\* one pass of the loop over the ring bins: the density n_photons / area
\* as the pair of its terms, the centre (inner + outer) / 2 in units of
\* 0.05 m, and the photons counted
RingOf(impact_r, inner_radius, outer_radius) ==
    LET area    == _ring_area(inner_radius, outer_radius)
        counted == {r \in DOMAIN impact_r :
                       InRing(impact_r[r], inner_radius, outer_radius)}
    IN  [inner |-> inner_radius, outer |-> outer_radius,
         counted |-> counted,
         photon_density |-> [n_photons |-> Cardinality(counted),
                             area |-> area],
         radial_bin_centre |-> inner_radius + outer_radius]

\* impacts in cm: the origin, 1 m (the first radius), 5 m, 50 m, 500 m
\* and 900 m (beyond the last radius)
ImpactPoints ==
    { <<0, 0>>, <<100, 0>>, <<300, 400>>, <<3000, 4000>>,
      <<30000, 40000>>, <<54000, 72000>> }

BunchAt(point) == <<point[1], point[2], 3, 4, 5, 6, 7, 8>>

PhotonBunches ==
    {[width |-> 8, rows |-> [i \in 1..Len(ps) |-> BunchAt(ps[i])]] :
        ps \in UNION {[1..n -> ImpactPoints] : n \in 0..MaxPhotons}}

InitDensity ==
    /\ layout = [s \in TrackSuffixes |-> <<>>]
    /\ directory = [s \in TrackSuffixes |-> [present |-> FALSE, bytes |-> <<>>]]
    /\ \E bunches \in PhotonBunches :
          container = [present |-> TRUE, events |-> << <<bunches>> >>]
    /\ file_paths = FoundPaths
    /\ cherenkov_photons = PhotonTable(container.events[1][1])
    /\ particle_tracks = DataFrame(columns, <<>>)
    /\ pc = "constructed"
    /\ err = "None"
    /\ file_idx = 4
    /\ cursor = 0
    /\ tracks = <<>>
    /\ particle_tracks_df = particle_tracks
    /\ mismatch = FALSE
    /\ call = NoCall
    /\ plot = PyNone

plot_ground_photon_density ==
    /\ pc = "constructed"
    /\ \E nbins \in 0..MaxSteps :
          LET impact_r     == ImpactR(cherenkov_photons)
              radii        == Logspace(nbins)
              density_bins == Reshape(radii, nbins)
          IN  /\ call' = [method |-> "plot_ground_photon_density",
                          arg |-> nbins]
              /\ IF ReshapeFits(radii, nbins)
                 THEN /\ err' = "None"
                      /\ plot' = [kind |-> "density",
                                  rings |-> [j \in DOMAIN density_bins |->
                                      RingOf(impact_r, density_bins[j][1],
                                             density_bins[j][2])]]
                 ELSE /\ err' = "ValueError"
                      /\ plot' = PyNone
    /\ pc' = "called"
    /\ UNCHANGED <<layout, directory, container, file_paths,
                   cherenkov_photons, particle_tracks, locals>>

NextDensity == plot_ground_photon_density

SpecDensity == InitDensity /\ [][NextDensity]_vars

(***************************************************************************)
(* Properties of the radial photon density profile.                        *)
(***************************************************************************)
\* C14: for every even nbins >= 2 the rings of plot_ground_photon_density
\* are non-empty intervals [inner, outer) with inner < outer, disjoint and
\* in increasing order; every ring area is positive, each photon is counted
\* in at most one ring, every density is non-negative and the centres
\* increase strictly.
C14_RingsDisjointIncreasing ==
    ( /\ call.method = "plot_ground_photon_density"
      /\ call.arg >= 2
      /\ call.arg % 2 = 0 ) =>
        /\ err = "None"
        /\ Len(plot.rings) = call.arg \div 2
        /\ \A j \in 1..Len(plot.rings) :
              /\ plot.rings[j].inner < plot.rings[j].outer
              /\ plot.rings[j].photon_density.area > 0
              /\ plot.rings[j].photon_density.n_photons >= 0
              /\ \A r \in plot.rings[j].counted :
                    /\ plot.rings[j].inner <= ImpactR(cherenkov_photons)[r]
                    /\ ImpactR(cherenkov_photons)[r] < plot.rings[j].outer
        /\ \A i, j \in 1..Len(plot.rings) :
              i < j =>
                 /\ plot.rings[i].outer <= plot.rings[j].inner
                 /\ plot.rings[i].counted \cap plot.rings[j].counted = {}
                 /\ plot.rings[i].radial_bin_centre
                       < plot.rings[j].radial_bin_centre

\* C14 witness: three rings were formed and two photons were counted, in
\* different rings
C14_Witness ==
    /\ call.method = "plot_ground_photon_density"
    /\ call.arg = 6
    /\ err = "None"
    /\ \E i, j \in 1..Len(plot.rings) :
          /\ i # j
          /\ plot.rings[i].counted # {}
          /\ plot.rings[j].counted # {}

(***************************************************************************)
(* Termination of the decode loop.                                         *)
(***************************************************************************)
\* a container whose first bunch array has the 8 fields of a photon bunch
LoadableEvents ==
    CHOOSE events \in Containers :
        /\ events # <<>>
        /\ events[1] # <<>>
        /\ events[1][1].width = 8

\* _parse_particle_data has just opened the first track file, the only
\* one of the directory: f is at position 0 and tracks is empty
InitLoop ==
    /\ \E i \in {1} :
       \E n \in 0..MaxFrames :
       \E l \in LayoutsOfLen(n) :
          /\ file_idx = i
          /\ layout = [s \in TrackSuffixes |->
                          IF s = PatternOf(FileAttrs[i]) THEN l ELSE <<>>]
          /\ directory =
                [s \in TrackSuffixes |->
                    [present |-> s = PatternOf(FileAttrs[i]),
                     bytes |-> FileBytes(layout[s])]]
    /\ container = [present |-> TRUE, events |-> LoadableEvents]
    /\ file_paths = FoundPaths
    /\ cherenkov_photons = PhotonTable(container.events[1][1])
    /\ particle_tracks = PyNone
    /\ pc = "while"
    /\ err = "None"
    /\ cursor = 0
    /\ tracks = <<>>
    /\ particle_tracks_df = DataFrame(columns, <<>>)
    /\ mismatch = FALSE
    /\ call = NoCall
    /\ plot = PyNone

NextLoop == WhileTrue

\* a loop that can run its next iteration runs it
SpecLoop == InitLoop /\ [][NextLoop]_vars /\ WF_vars(WhileTrue)

\* C15: whatever the bytes of a track file, an iteration of the decode loop
\* of _parse_particle_data that does not stop the loop moves the file
\* position forward by at least 4 bytes, the position never passes the end
\* of the file, and the loop ends, with the records read or with an error.
C15_DecodeLoopTerminates ==
    /\ [][(pc = "while" /\ pc' = "while") => cursor' >= cursor + 4]_vars
    /\ [](pc = "while" => cursor <= Len(OpenBytes))
    /\ [](pc = "while" => <>(pc \in {"after_while", "raised"}))

\* C15 witness: the loop over a file that holds a record and then a frame
\* with a negative length prefix has ended
C15_Witness ==
    /\ pc \in {"after_while", "raised"}
    /\ file_idx \in 1..Len(ParticleFiles)
    /\ ParticleFiles[file_idx] # "None"
    /\ Len(OpenLayout) = 2
    /\ OpenLayout[1] \in GoodKinds
    /\ OpenLayout[2] \in {"minus1", "minus2"}
    /\ Len(tracks) = 1

====
